---- MODULE Spec2Model ----
(***************************************************************************)
(* Model of the ODIONS backend: the bearer-token middleware                *)
(* (middleware/auth.js), the analytics routes with their two bucketing     *)
(* helpers (routes/analytics.js) and the chatbot routes                    *)
(* (routes/chatbots.js).                                                   *)
(*                                                                         *)
(* JavaScript values are modelled as tagged records so that null,          *)
(* undefined, strings and numbers stay distinct:                           *)
(*   strings  : sequences of character codes (ASCII)                       *)
(*   numbers  : [nan, v] with v an integer (money in cents), NaN apart     *)
(*   Date     : [valid, t] with t the instant in hours since the epoch     *)
(***************************************************************************)
EXTENDS Integers, Sequences, FiniteSets, TLC

VARIABLES
    route,      \* the analytics route whose handler runs
    query,      \* req.query of the request
    tz,         \* the server's time zone, hours east of UTC
    auth,       \* req.headers.authorization
    idp,        \* supabase.auth.getUser: "none", "pending", then its outcome
    user,       \* req.user
    pc,         \* position of the request: in the middleware ("auth",
                \* "auth_await"), in the handler ("start", "await", ...), "done"
    queries,    \* queries the handler has issued: [table, outcome]
    orders,     \* rows the store has materialised for the orders query
    users,      \* rows of the users query (GET /overview)
    campaigns,  \* rows of the campaigns query (GET /overview)
    sent        \* responses sent on res, in order: [status, body]

\* the chatbot_sessions row of one session id, the add-message requests in
\* flight on it, and the clock read by `new Date()`
VARIABLES chatbot_sessions, requests, now

chat == <<chatbot_sessions, requests, now>>

vars == <<route, query, tz, auth, idp, user, pc, queries, orders, users, campaigns, sent,
          chatbot_sessions, requests, now>>

----------------------------------------------------------------------------
(* Bounds of the model *)

MaxOrders == 3
MaxFunnelOrders == 6
MaxLtvOrders == 4
MaxUsers == 1
MaxCampaigns == 1

----------------------------------------------------------------------------
(* JavaScript values *)

Undefined == [t |-> "undefined"]
Null == [t |-> "null"]
\* a string as its characters, for the strings the code builds and orders
Str(s) == [t |-> "string", s |-> s]
\* a string by its content, for the strings the code only tests for equality
\* (status words, identifiers)
Text(name) == [t |-> "text", name |-> name]

NaN == [nan |-> TRUE, v |-> 0]
Num(n) == [nan |-> FALSE, v |-> n]

\* a + b on numbers: NaN is absorbing
JsAdd(a, b) == IF a.nan \/ b.nan THEN NaN ELSE Num(a.v + b.v)

\* the fallback `|| 0` left out
OrZero_missing(x) == x

\* `x || 0` on a number: NaN and 0 are falsy
OrZero(x) == IF x.nan \/ x.v = 0 THEN Num(0) ELSE x

\* character codes
Hyphen == <<45>>
StrNaN == <<78, 97, 78>>
StrAbc == <<97, 98, 99>>

RECURSIVE Digits(_)
\* String(n) for an integer n >= 0
Digits(n) == IF n < 10 THEN <<48 + n>> ELSE Digits(n \div 10) \o <<48 + (n % 10)>>

RECURSIVE PadStart(_, _)
\* s.padStart(w, '0')
PadStart(s, w) == IF Len(s) >= w THEN s ELSE PadStart(<<48>> \o s, w)

RECURSIVE StrLess(_, _)
\* a.localeCompare(b) < 0 for strings over digits, '-', ' ', ':' and letters,
\* where the collation order agrees with the order of the character codes
StrLess(a, b) ==
    IF a = <<>> THEN b # <<>>
    ELSE IF b = <<>> THEN FALSE
    ELSE IF Head(a) # Head(b) THEN Head(a) < Head(b)
    ELSE StrLess(Tail(a), Tail(b))

\* parseFloat(v): a decimal string parses to its value (here in cents),
\* null, undefined and a non-numeric string give NaN
ParseFloat(v) == IF v.t = "decimal" THEN Num(v.cents) ELSE NaN

Decimal(c) == [t |-> "decimal", cents |-> c]

----------------------------------------------------------------------------
(* Date *)

InvalidDate == [valid |-> FALSE, t |-> 0]
DateAt(h) == [valid |-> TRUE, t |-> h]

\* an ISO timestamp as the store returns it
Timestamp(h) == [t |-> "timestamp", hours |-> h]

\* new Date(v): a timestamp string parses to its instant, null converts to
\* the number 0 (the epoch), undefined and an unparseable string give
\* an Invalid Date
NewDate(v) ==
    IF v.t = "timestamp" THEN DateAt(v.hours)
    ELSE IF v.t = "null" THEN DateAt(0)
    ELSE InvalidDate

FloorDiv(a, b) == IF a >= 0 THEN a \div b ELSE -((-a + b - 1) \div b)

\* Day(t) and the civil date of a day number (ECMAScript YearFromTime,
\* MonthFromTime, DateFromTime), days counted from 1970-01-01
CivilFromDays(days) ==
    LET z == days + 719468
        era == FloorDiv(z, 146097)
        doe == z - era * 146097
        yoe == (doe - doe \div 1460 + doe \div 36524 - doe \div 146096) \div 365
        doy == doe - (365 * yoe + yoe \div 4 - yoe \div 100)
        mp == (5 * doy + 2) \div 153
        d == doy - (153 * mp + 2) \div 5 + 1
        m == IF mp < 10 THEN mp + 3 ELSE mp - 9
    IN  [y |-> yoe + era * 400 + (IF m <= 2 THEN 1 ELSE 0), m |-> m, d |-> d]

\* ECMAScript MakeDay(year, month, date): date may lie outside the month
DaysFromCivil(y, m, d) ==
    LET yy == IF m <= 2 THEN y - 1 ELSE y
        era == FloorDiv(yy, 400)
        yoe == yy - era * 400
        doy == (153 * (IF m > 2 THEN m - 3 ELSE m + 9) + 2) \div 5 + d - 1
        doe == yoe * 365 + yoe \div 4 - yoe \div 100 + doy
    IN  era * 146097 + doe - 719468

UtcDay(date) == FloorDiv(date.t, 24)
LocalDay(date, zone) == FloorDiv(date.t + zone, 24)
LocalHour(date, zone) == (date.t + zone) - 24 * LocalDay(date, zone)

\* date.toISOString().split('T')[0]: the UTC calendar date; the caller
\* checks validity (toISOString throws RangeError on an Invalid Date)
IsoDate(date) ==
    LET c == CivilFromDays(UtcDay(date))
    IN  PadStart(Digits(c.y), 4) \o Hyphen \o PadStart(Digits(c.m), 2)
            \o Hyphen \o PadStart(Digits(c.d), 2)

\* local-time getters
GetFullYear(date, zone) == CivilFromDays(LocalDay(date, zone)).y
GetMonth(date, zone) == CivilFromDays(LocalDay(date, zone)).m - 1
GetDate(date, zone) == CivilFromDays(LocalDay(date, zone)).d
GetDay(date, zone) == (LocalDay(date, zone) + 4) % 7
GetHours(date, zone) == LocalHour(date, zone)

\* date.setDate(n): local day-of-month replaced, local time of day kept
SetDate(date, n, zone) ==
    LET c == CivilFromDays(LocalDay(date, zone))
        day == DaysFromCivil(c.y, c.m, 1) + n - 1
    IN  DateAt(day * 24 + LocalHour(date, zone) - zone)

----------------------------------------------------------------------------
(* Objects used as dictionaries, and Array.prototype.sort *)

\* index of the entry of dictionary `obj` (entries in insertion order)
\* stored under `key`, 0 when there is none
RECURSIVE IndexOfKey(_, _, _)
IndexOfKey(obj, key, i) ==
    IF i > Len(obj) THEN 0
    ELSE IF obj[i].key = key THEN i
    ELSE IndexOfKey(obj, key, i + 1)

\* a property name that is a canonical array index ("2024", not "2024-03")
IsArrayIndex(key) ==
    /\ key.t = "string"
    /\ key.s # <<>>
    /\ \A i \in 1..Len(key.s) : key.s[i] >= 48 /\ key.s[i] <= 57
    /\ (Len(key.s) > 1 => key.s[1] # 48)

IndexLess(a, b) ==
    \/ Len(a.s) < Len(b.s)
    \/ Len(a.s) = Len(b.s) /\ StrLess(a.s, b.s)

\* comparators handed to sort(): TRUE when cmp(a, b) < 0
\*   period  : a.period.localeCompare(b.period)
\*   revenue : b.total_revenue - a.total_revenue
\*   orders  : b.total_orders - a.total_orders
\*   spent   : b.total_spent - a.total_spent
\*   index   : ascending array-index order of Object.values
Before(cmp, a, b) ==
    CASE cmp = "period" -> StrLess(a.period.s, b.period.s)
      [] cmp = "revenue" -> b.total_revenue.v - a.total_revenue.v < 0
      [] cmp = "orders" -> b.total_orders - a.total_orders < 0
      [] cmp = "spent" -> b.total_spent.v - a.total_spent.v < 0
      [] cmp = "index" -> IndexLess(a.key, b.key)

RECURSIVE InsertSorted(_, _, _)
InsertSorted(cmp, sorted, x) ==
    IF sorted = <<>> THEN <<x>>
    ELSE IF Before(cmp, x, Head(sorted)) THEN <<x>> \o sorted
    ELSE <<Head(sorted)>> \o InsertSorted(cmp, Tail(sorted), x)

RECURSIVE SortAcc(_, _, _)
SortAcc(cmp, s, acc) ==
    IF s = <<>> THEN acc
    ELSE SortAcc(cmp, Tail(s), InsertSorted(cmp, acc, Head(s)))

\* array.sort(cmp): stable; the comparator is not called on fewer than
\* two elements
ArraySort(cmp, s) == IF Len(s) < 2 THEN s ELSE SortAcc(cmp, s, <<>>)

\* Object.values(obj): array-index keys first in ascending numeric order,
\* then the other keys in insertion order
ObjectValues(obj) ==
    LET idx == SelectSeq(obj, LAMBDA e : IsArrayIndex(e.key))
        rest == SelectSeq(obj, LAMBDA e : ~IsArrayIndex(e.key))
        all == ArraySort("index", idx) \o rest
    IN  [i \in 1..Len(all) |-> all[i].val]

\* array.slice(0, n)
Slice0(s, n) ==
    LET end == IF n < 0 THEN (IF Len(s) + n < 0 THEN 0 ELSE Len(s) + n)
               ELSE IF n > Len(s) THEN Len(s) ELSE n
    IN  SubSeq(s, 1, end)

----------------------------------------------------------------------------
(* groupByPeriod *)

Returned(v) == [throws |-> FALSE, value |-> v]
Thrown == [throws |-> TRUE, value |-> <<>>]

\* the bucket key of one order; toISOString throws on an Invalid Date,
\* the local getters return NaN, an unknown period leaves key undefined
RevenueKey(order, period, zone) ==
    LET date == NewDate(order.created_at)
    IN  CASE period = "day" ->
               IF date.valid THEN Returned(Str(IsoDate(date))) ELSE Thrown
          [] period = "week" ->
               IF date.valid
               THEN Returned(Str(IsoDate(
                        SetDate(date, GetDate(date, zone) - GetDay(date, zone), zone))))
               ELSE Thrown
          [] period = "month" ->
               IF date.valid
               THEN Returned(Str(Digits(GetFullYear(date, zone)) \o Hyphen
                        \o PadStart(Digits(GetMonth(date, zone) + 1), 2)))
               ELSE Returned(Str(StrNaN \o Hyphen \o StrNaN))
          [] period = "year" ->
               IF date.valid
               THEN Returned(Str(Digits(GetFullYear(date, zone))))
               ELSE Returned(Str(StrNaN))
          [] OTHER -> Returned(Undefined)

\* one forEach step of groupByPeriod on the dictionary `grouped`
RevenueStep(grouped, order, key) ==
    LET i == IndexOfKey(grouped, key, 1)
        g == IF i = 0
             THEN Append(grouped, [key |-> key,
                      val |-> [period |-> key, revenue |-> Num(0), orders |-> 0]])
             ELSE grouped
        j == IF i = 0 THEN Len(g) ELSE i
    IN  [g EXCEPT ![j].val.revenue = JsAdd(@, OrZero(ParseFloat(order.total))),
                  ![j].val.orders = @ + 1]

RECURSIVE RevenueFold(_, _, _, _)
RevenueFold(os, period, zone, grouped) ==
    IF os = <<>> THEN Returned(grouped)
    ELSE LET k == RevenueKey(Head(os), period, zone)
         IN  IF k.throws THEN Thrown
             ELSE RevenueFold(Tail(os), period, zone,
                              RevenueStep(grouped, Head(os), k.value))

\* groupByPeriod returning Object.values(grouped) as it is, without the sort
groupByPeriod_unsorted(os, period, zone) ==
    LET g == RevenueFold(os, period, zone, <<>>)
    IN  IF g.throws THEN Thrown ELSE Returned(ObjectValues(g.value))

groupByPeriod(os, period, zone) ==
    LET g == RevenueFold(os, period, zone, <<>>)
    IN  IF g.throws THEN Thrown
        ELSE Returned(ArraySort("period", ObjectValues(g.value)))

----------------------------------------------------------------------------
(* groupOrdersByPeriod *)

Space == <<32>>
ColonZeroZero == <<58, 48, 48>>

TrendKey(order, period, zone) ==
    LET date == NewDate(order.created_at)
    IN  CASE period = "day" ->
               IF date.valid THEN Returned(Str(IsoDate(date))) ELSE Thrown
          [] period = "hour" ->
               IF date.valid
               THEN Returned(Str(IsoDate(date) \o Space
                        \o PadStart(Digits(GetHours(date, zone)), 2) \o ColonZeroZero))
               ELSE Thrown
          [] OTHER -> Returned(Undefined)

\* the property name order.status is converted to
PropertyName(status) ==
    IF status.t = "text" THEN status.name ELSE status.t


\* a number stored in the `period` property
NumberValue(n) == [t |-> "number", v |-> n]

\* (bucket[name] || 0) + 1: a counter is incremented, an absent or
\* undefined property starts at 0, a non-empty string has "1" appended
Increment(bucket, name) ==
    IF name \notin DOMAIN bucket THEN 1
    ELSE IF name = "period"
         THEN CASE bucket.period.t = "string" /\ bucket.period.s # <<>> ->
                     Str(bucket.period.s \o <<49>>)
                [] bucket.period.t = "number" -> NumberValue(bucket.period.v + 1)
                [] OTHER -> NumberValue(1)
         ELSE bucket[name] + 1

\* one forEach step of groupOrdersByPeriod on the dictionary `grouped`
TrendStep(grouped, order, key) ==
    LET i == IndexOfKey(grouped, key, 1)
        g == IF i = 0
             THEN Append(grouped, [key |-> key,
                      val |-> [period |-> key, total |-> 0, pending |-> 0,
                               processing |-> 0, delivered |-> 0, cancelled |-> 0]])
             ELSE grouped
        j == IF i = 0 THEN Len(g) ELSE i
        counted == [g[j].val EXCEPT !.total = @ + 1]
        name == PropertyName(order.status)
        bucket == [p \in DOMAIN counted \cup {name} |->
                      IF p = name THEN Increment(counted, name) ELSE counted[p]]
    IN  [g EXCEPT ![j].val = bucket]

RECURSIVE TrendFold(_, _, _, _)
TrendFold(os, period, zone, grouped) ==
    IF os = <<>> THEN Returned(grouped)
    ELSE LET k == TrendKey(Head(os), period, zone)
         IN  IF k.throws THEN Thrown
             ELSE TrendFold(Tail(os), period, zone,
                            TrendStep(grouped, Head(os), k.value))

groupOrdersByPeriod(os, period, zone) ==
    LET g == TrendFold(os, period, zone, <<>>)
    IN  IF g.throws THEN Thrown
        ELSE Returned(ArraySort("period", ObjectValues(g.value)))

----------------------------------------------------------------------------
(* Inputs *)

\* the server's time zone is fixed by its environment
TimeZones == {-5, 0, 2}

\* created_at values: 2023-12-31T23:00Z (Sun), 2024-01-03T12:00Z (Wed),
\* 2024-03-09T23:00Z (Sat), 2024-03-13T12:00Z (Wed); an unparseable
\* string, null and an absent field
ValidCreatedAt ==
    {Timestamp(473351), Timestamp(473412), Timestamp(475007), Timestamp(475092)}
CreatedAtValues == ValidCreatedAt \cup {Str(StrAbc), Null, Undefined}

\* order totals: whole amounts (no quotient of theirs is a half-cent tie,
\* where the binary rounding of toFixed would decide), and "abc"
TotalValues == {Decimal(10000), Str(StrAbc)}

RevenuePeriods == {"day", "week", "month", "year", "decade"}
RevenueQueries == [period : RevenuePeriods]

\* a row of the orders table; the fields a select leaves out stay undefined
EmptyRow ==
    [total |-> Undefined, status |-> Undefined, created_at |-> Undefined,
     created_by |-> Undefined, store_id |-> Undefined, stores |-> Undefined,
     delivery_company_id |-> Undefined, delivery_companies |-> Undefined]

\* select('total, created_at, status'); groupByPeriod reads no status
RevenueRows ==
    {[EmptyRow EXCEPT !.total = t, !.created_at = c] :
        t \in TotalValues, c \in CreatedAtValues}

TrendPeriods == {"day", "hour", "week"}
TrendQueries == [period : TrendPeriods]

\* status values: two of the four fixed ones and one outside them
TrendStatuses == {Text("pending"), Text("delivered"), Text("refunded")}

\* created_at values of the trend rows: two timestamps, an unparseable
\* string and null
TrendCreatedAt == {Timestamp(473351), Timestamp(475092), Str(StrAbc), Null}

\* select('created_at, status')
TrendRows ==
    {[EmptyRow EXCEPT !.status = st, !.created_at = c] :
        st \in TrendStatuses, c \in TrendCreatedAt}

----------------------------------------------------------------------------
(* A route handler: one query on the orders table, then the response *)

Ok(body) == [status |-> 200, body |-> body]
Failed(status) == [status |-> status, body |-> <<>>]

\* the handler builds its query and awaits it
IssueQuery(r) ==
    /\ route = r
    /\ pc = "start"
    /\ queries' = Append(queries, [table |-> "orders", outcome |-> "pending"])
    /\ pc' = "await"
    /\ UNCHANGED <<chat, route, query, tz, auth, idp, user, orders, users, campaigns, sent>>

\* the store materialises one more row of the result
FetchRow(r, rows, max) ==
    /\ route = r
    /\ pc = "await"
    /\ Len(orders) < max
    /\ \E row \in rows : orders' = Append(orders, row)
    /\ UNCHANGED <<chat, route, query, tz, auth, idp, user, pc, queries, users, campaigns, sent>>

\* the store answers the awaited query with an error: `if (error) throw
\* error`, and the catch block sends the 500
QueryFails(r) ==
    /\ route = r
    /\ \/ pc = "await" /\ orders = <<>>
       \/ pc = "await_users" /\ users = <<>>
       \/ pc = "await_campaigns" /\ campaigns = <<>>
    /\ queries' = [queries EXCEPT ![Len(queries)].outcome = "error"]
    /\ sent' = Append(sent, Failed(500))
    /\ pc' = "done"
    /\ UNCHANGED <<chat, route, query, tz, auth, idp, user, orders, users, campaigns>>

\* the await resumes with the rows: res.json(body) when the computation
\* returns, the catch block's 500 when it throws
Respond(r, result) ==
    /\ route = r
    /\ pc = "await"
    /\ queries' = [queries EXCEPT ![Len(queries)].outcome = "data"]
    /\ sent' = Append(sent, IF result.throws THEN Failed(500) ELSE Ok(result.value))
    /\ pc' = "done"
    /\ UNCHANGED <<chat, route, query, tz, auth, idp, user, orders, users, campaigns>>

\* a request for route r, nothing queried or sent yet
Request(r, queryValues, zones) ==
    /\ route = r
    /\ query \in queryValues
    /\ tz \in zones
    /\ queries = <<>>
    /\ orders = <<>>
    /\ users = <<>>
    /\ campaigns = <<>>
    /\ sent = <<>>
    /\ chatbot_sessions = Null
    /\ requests = <<>>
    /\ now = 0

\* an Authorization header as its space-separated parts, and the user the
\* identity provider resolves the good token to
Header(parts) == [t |-> "header", parts |-> parts]
TheUser == [t |-> "user", id |-> Text("u1")]

\* the request as the middleware hands it to the handler: next() was called
\* with req.user set
InitHandler(r, queryValues, zones) ==
    /\ Request(r, queryValues, zones)
    /\ auth = Header(<<"Bearer", "good">>)
    /\ idp = "user"
    /\ user = TheUser
    /\ pc = "start"

Responded == pc = "done"
response == sent[Len(sent)]

\* the handler ran on the rows of its queries, none of which failed
Computed == Responded /\ queries # <<>> /\ queries[Len(queries)].outcome = "data"

----------------------------------------------------------------------------
(* Bucketing specification: GET /revenue and GET /orders/trends *)

InitBucket ==
    \/ InitHandler("revenue", RevenueQueries, TimeZones)
    \/ InitHandler("trends", TrendQueries, TimeZones)

RevenueQuery == IssueQuery("revenue")
RevenueRow == FetchRow("revenue", RevenueRows, MaxOrders)
RevenueQueryFails == QueryFails("revenue")
Revenue == Respond("revenue", groupByPeriod(orders, query.period, tz))

TrendsQuery == IssueQuery("trends")
TrendsRow == FetchRow("trends", TrendRows, MaxOrders)
TrendsQueryFails == QueryFails("trends")
Trends == Respond("trends", groupOrdersByPeriod(orders, query.period, tz))

NextBucket ==
    \/ RevenueQuery \/ RevenueRow \/ RevenueQueryFails \/ Revenue
    \/ TrendsQuery \/ TrendsRow \/ TrendsQueryFails \/ Trends

SpecBucket == InitBucket /\ [][NextBucket]_vars

----------------------------------------------------------------------------
(* Properties of the bucketing helpers *)

KnownUnit ==
    \/ route = "revenue" /\ query.period \in {"day", "week", "month", "year"}
    \/ route = "trends" /\ query.period \in {"day", "hour"}

\* the orders whose created_at is a well-formed timestamp
WellFormed(os) == SelectSeq(os, LAMBDA o : o.created_at.t = "timestamp")

Bucketing(os) ==
    IF route = "revenue" THEN groupByPeriod(os, query.period, tz)
    ELSE groupOrdersByPeriod(os, query.period, tz)

Elements(s) == {s[i] : i \in DOMAIN s}

\* C2: a bucketing request with a unit outside the route's set fails with
\* InvalidArgument (a 400) and returns no bucket list, whatever the orders.
C2_UnknownUnitIsInvalidArgument ==
    (route \in {"revenue", "trends"} /\ Computed /\ ~KnownUnit)
        => response.status = 400

\* C3: with a valid unit, a malformed or missing created_at never aborts the
\* bucketing: a bucket list is returned, and it holds every bucket that the
\* well-formed orders alone produce.
C3_MalformedDateNeverAborts ==
    (route \in {"revenue", "trends"} /\ Computed /\ KnownUnit)
        => /\ response.status = 200
           /\ Elements(Bucketing(WellFormed(orders)).value)
                  \subseteq Elements(response.body)

StrictlyAscending(buckets) ==
    \A i \in 1..(Len(buckets) - 1) :
        StrLess(buckets[i].period.s, buckets[i + 1].period.s)

NoDuplicateKeys(buckets) ==
    \A i, j \in DOMAIN buckets : i # j => buckets[i].period # buckets[j].period

\* C7: for every order sequence, in any arrival order, and every unit in
\* {day, week, month, year}, the buckets groupByPeriod returns are in strictly
\* ascending order of their key and no two share a key.
C7_RevenueBucketsStrictlyAscending ==
    (route = "revenue" /\ KnownUnit /\ Computed /\ response.status = 200)
        => /\ StrictlyAscending(response.body)
           /\ NoDuplicateKeys(response.body)

\* three buckets returned for orders that arrived latest first
C7_Witness ==
    /\ route = "revenue" /\ KnownUnit /\ Computed /\ response.status = 200
    /\ Len(response.body) = 3
    /\ Len(orders) = 3
    /\ \A i \in 1..3 : orders[i].created_at.t = "timestamp"
    /\ orders[1].created_at.hours > orders[2].created_at.hours
    /\ orders[2].created_at.hours > orders[3].created_at.hours

\* the calendar date, as YYYY-MM-DD, of the last Sunday on or before `day`
SundayOnOrBefore(day) == IsoDate(DateAt(24 * (day - ((day + 4) % 7))))

\* C8: with unit week every order is placed under the date of the most
\* recent Sunday on or before the order's date (taken as the order's UTC
\* date or as its date on the server's clock), whatever its time of day.
C8_WeekKeyIsPrecedingSunday ==
    (route = "revenue" /\ query.period = "week" /\ Computed /\ response.status = 200)
        => \A i \in DOMAIN orders :
               orders[i].created_at.t = "timestamp" =>
                   LET date == NewDate(orders[i].created_at)
                   IN  \E b \in Elements(response.body) :
                           \/ b.period = Str(SundayOnOrBefore(UtcDay(date)))
                           \/ b.period = Str(SundayOnOrBefore(LocalDay(date, tz)))

----------------------------------------------------------------------------
(* GET /conversion-funnel *)

\* orders.filter(o => o.status === name).length
CountStatus(os, name) == Len(SelectSeq(os, LAMBDA o : o.status = Text(name)))

\* ((count / total) * 100).toFixed(1), in hundredths of a percent
PercentToFixed1(count, total) ==
    10 * ((2 * count * 1000 + total) \div (2 * total))

\* ((count / total) * 100).toFixed(2), in hundredths of a percent: the
\* nearest hundredth (no quotient with total < 32 lies halfway)
PercentToFixed2(count, total) == (2 * count * 10000 + total) \div (2 * total)

\* total > 0 ? rate.toFixed(2) : 0
FunnelEntry(count, total) ==
    [count |-> count, rate |-> IF total > 0 THEN PercentToFixed2(count, total) ELSE 0]

conversionFunnel(os) ==
    LET total == Len(os)
    IN  [funnel |-> [pending |-> FunnelEntry(CountStatus(os, "pending"), total),
                     processing |-> FunnelEntry(CountStatus(os, "processing"), total),
                     delivered |-> FunnelEntry(CountStatus(os, "delivered"), total),
                     cancelled |-> FunnelEntry(CountStatus(os, "cancelled"), total)],
         total |-> total]

FixedStatuses == {"pending", "processing", "delivered", "cancelled"}

\* select('status'): the four fixed statuses and one outside them
FunnelRows ==
    {[EmptyRow EXCEPT !.status = Text(st)] : st \in FixedStatuses \cup {"refunded"}}

InitFunnel == InitHandler("conversion-funnel", {<<>>}, {0})

FunnelQuery == IssueQuery("conversion-funnel")
FunnelRow == FetchRow("conversion-funnel", FunnelRows, MaxFunnelOrders)
FunnelQueryFails == QueryFails("conversion-funnel")
ConversionFunnel == Respond("conversion-funnel", Returned(conversionFunnel(orders)))

NextFunnel == FunnelQuery \/ FunnelRow \/ FunnelQueryFails \/ ConversionFunnel

SpecFunnel == InitFunnel /\ [][NextFunnel]_vars

\* the sum of the four reported rates, in hundredths of a percent
RateSum(f) == f.pending.rate + f.processing.rate + f.delivered.rate + f.cancelled.rate

AllKnownStatuses(os) ==
    \A i \in DOMAIN os : os[i].status \in {Text(st) : st \in FixedStatuses}

FunnelAnswered == route = "conversion-funnel" /\ Computed /\ response.status = 200

\* C4 as stated: the four rates sum to at most 100.00, and to exactly
\* 100.00 when total > 0 and every order has one of the four statuses.
C4_FunnelRatesSumTo100 ==
    FunnelAnswered =>
        /\ RateSum(response.body.funnel) <= 10000
        /\ (Len(orders) > 0 /\ AllKnownStatuses(orders))
               => RateSum(response.body.funnel) = 10000

\* C4 amended: each rate is rounded to 2 decimals on its own, so the four
\* rates sum to at most 100.02, to within 0.02 of 100.00 when total > 0 and
\* every order has one of the four statuses, and to 0 when total is 0.
C4_FunnelRatesSumWithinRounding ==
    FunnelAnswered =>
        /\ RateSum(response.body.funnel) <= 10002
        /\ (Len(orders) > 0 /\ AllKnownStatuses(orders))
               => /\ RateSum(response.body.funnel) >= 9998
                  /\ RateSum(response.body.funnel) <= 10002
        /\ Len(orders) = 0 => RateSum(response.body.funnel) = 0

\* six orders of known statuses split 1/1/1/3: 16.67 * 3 + 50.00 = 100.01
C4_Witness ==
    /\ FunnelAnswered
    /\ Len(orders) = 6
    /\ AllKnownStatuses(orders)
    /\ RateSum(response.body.funnel) = 10001

----------------------------------------------------------------------------
(* GET /top-performers *)

DefaultType == Text("stores")
DefaultLimit == 10

\* a query-string value holding the integer n
IntegerString(n) == [t |-> "integer", n |-> n]

\* parseInt(v): the number itself, the integer a string holds, else NaN
ParseInt(v) ==
    IF v.t = "integer" THEN Num(v.n) ELSE NaN

\* slice's end argument: NaN converts to 0
ToIntegerOrZero(x) == IF x.nan THEN 0 ELSE x.v

\* order.stores?.name || 'Unknown'
JoinedName(joined) ==
    IF joined.t = "row" /\ joined.name.t = "text" THEN joined.name ELSE Text("Unknown")

Joined(name) == [t |-> "row", name |-> name]

\* one forEach step of the stores branch on the dictionary storePerformance
StoreStep(perf, order) ==
    LET key == order.store_id
        i == IndexOfKey(perf, key, 1)
        g == IF i = 0
             THEN Append(perf, [key |-> key,
                      val |-> [store_id |-> key,
                               store_name |-> JoinedName(order.stores),
                               total_orders |-> 0, total_revenue |-> Num(0)]])
             ELSE perf
        j == IF i = 0 THEN Len(g) ELSE i
    IN  [g EXCEPT ![j].val.total_orders = @ + 1,
                  ![j].val.total_revenue = JsAdd(@, OrZero(ParseFloat(order.total)))]

\* one forEach step of the delivery branch on deliveryPerformance
DeliveryStep(perf, order) ==
    LET key == order.delivery_company_id
        i == IndexOfKey(perf, key, 1)
        g == IF i = 0
             THEN Append(perf, [key |-> key,
                      val |-> [delivery_id |-> key,
                               delivery_name |-> JoinedName(order.delivery_companies),
                               total_orders |-> 0, total_revenue |-> Num(0)]])
             ELSE perf
        j == IF i = 0 THEN Len(g) ELSE i
    IN  [g EXCEPT ![j].val.total_orders = @ + 1,
                  ![j].val.total_revenue = JsAdd(@, OrZero(ParseFloat(order.total)))]

RECURSIVE PerformanceFold(_, _, _)
PerformanceFold(os, type, perf) ==
    IF os = <<>> THEN perf
    ELSE PerformanceFold(Tail(os), type,
             IF type = "stores" THEN StoreStep(perf, Head(os))
             ELSE DeliveryStep(perf, Head(os)))

\* the sort of each branch: stores by revenue, delivery by order count
PerformanceOrder(type) == IF type = "stores" THEN "revenue" ELSE "orders"

\* Object.values(perf).sort(...).slice(0, parseInt(limit))
topPerformers(os, type, limit) ==
    Slice0(ArraySort(PerformanceOrder(type),
                     ObjectValues(PerformanceFold(os, type, <<>>))),
           ToIntegerOrZero(ParseInt(limit)))

\* const { type = 'stores', limit = 10 } = req.query
TypeOf(q) == IF q.type = Undefined THEN DefaultType ELSE q.type
LimitOf(q) == IF q.limit = Undefined THEN IntegerString(DefaultLimit) ELSE q.limit

TypeValues == {Undefined, Text("stores"), Text("delivery"), Text("bogus")}
LimitValues == {Undefined, IntegerString(1), IntegerString(2), IntegerString(-1),
                Str(StrAbc)}

\* the groups, each with the name its join resolves to (none for C)
GroupIds == {Text("A"), Text("B"), Text("C")}
GroupJoin(id) == IF id = Text("C") THEN Null ELSE Joined(id)

TopTotals == {Decimal(10000), Decimal(30000), Str(StrAbc)}

\* select('total, store_id, stores(name)') and
\* select('total, delivery_company_id, delivery_companies(name)')
StoreRows ==
    {[EmptyRow EXCEPT !.total = t, !.store_id = id, !.stores = GroupJoin(id)] :
        t \in TopTotals, id \in GroupIds}
DeliveryRows ==
    {[EmptyRow EXCEPT !.total = t, !.delivery_company_id = id,
                      !.delivery_companies = GroupJoin(id)] :
        t \in TopTotals, id \in GroupIds}

TopQueries == [type : TypeValues, limit : LimitValues]

InitTop == InitHandler("top-performers", TopQueries, {0})

\* the orders query issued whatever the type (a fallback to a default)
TopQuery_fallback == route = "top-performers" /\ IssueQuery("top-performers")

\* `if (type === 'stores')` and `else if (type === 'delivery')`: the branch
\* awaits its orders query
TopQuery ==
    /\ route = "top-performers"
    /\ TypeOf(query) \in {Text("stores"), Text("delivery")}
    /\ IssueQuery("top-performers")

\* the final else: res.status(400), and the handler returns
TopInvalidType ==
    /\ route = "top-performers"
    /\ pc = "start"
    /\ TypeOf(query) \notin {Text("stores"), Text("delivery")}
    /\ sent' = Append(sent, Failed(400))
    /\ pc' = "done"
    /\ UNCHANGED <<chat, route, query, tz, auth, idp, user, queries, orders, users, campaigns>>

TopRow ==
    /\ route = "top-performers"
    /\ \/ TypeOf(query) = Text("stores")
          /\ FetchRow("top-performers", StoreRows, MaxOrders)
       \/ TypeOf(query) = Text("delivery")
          /\ FetchRow("top-performers", DeliveryRows, MaxOrders)

TopQueryFails == QueryFails("top-performers")

TopPerformers ==
    Respond("top-performers",
            Returned(topPerformers(orders, TypeOf(query).name, LimitOf(query))))

NextTop == TopQuery \/ TopInvalidType \/ TopRow \/ TopQueryFails \/ TopPerformers

SpecTop == InitTop /\ [][NextTop]_vars

ValidType == TypeOf(query) \in {Text("stores"), Text("delivery")}

\* C1: a top-performers request whose type is neither 'stores' nor
\* 'delivery' issues no orders query, returns no list, and is answered by
\* exactly one response, the 400.
C1_InvalidTypeIs400 ==
    (route = "top-performers" /\ ~ValidType)
        => /\ queries = <<>>
           /\ orders = <<>>
           /\ sent = IF pc = "done" THEN <<Failed(400)>> ELSE <<>>

C1_Witness ==
    /\ route = "top-performers"
    /\ query.type = Text("bogus")
    /\ pc = "done"
    /\ sent = <<Failed(400)>>

RECURSIVE SumTotals(_)
\* the sum, in cents, of the totals that are decimal strings
SumTotals(os) ==
    IF os = <<>> THEN 0
    ELSE (IF Head(os).total.t = "decimal" THEN Head(os).total.cents ELSE 0)
             + SumTotals(Tail(os))

GroupIdOf(o) ==
    IF TypeOf(query) = Text("stores") THEN o.store_id ELSE o.delivery_company_id

OrdersOf(id) == SelectSeq(orders, LAMBDA o : GroupIdOf(o) = id)

\* what a group is ranked by: its revenue (stores), its order count (delivery)
Rank(id) ==
    IF TypeOf(query) = Text("stores") THEN SumTotals(OrdersOf(id)) ELSE Len(OrdersOf(id))

EntryId(b) == IF TypeOf(query) = Text("stores") THEN b.store_id ELSE b.delivery_id

EntryRank(b) ==
    IF TypeOf(query) = Text("stores") THEN b.total_revenue.v ELSE b.total_orders

\* the limit the request asks for, when it is a number
RequestedLimit == ParseInt(LimitOf(query))

TopAnswered ==
    /\ route = "top-performers" /\ ValidType
    /\ Computed /\ response.status = 200

TopSorted(body) ==
    /\ \A i \in DOMAIN body : EntryRank(body[i]) = Rank(EntryId(body[i]))
    /\ \A i \in 1..(Len(body) - 1) : EntryRank(body[i]) >= EntryRank(body[i + 1])

TopKeepsTheBest(body) ==
    \A i \in DOMAIN orders :
        (\A j \in DOMAIN body : EntryId(body[j]) # GroupIdOf(orders[i]))
            => \A j \in DOMAIN body : Rank(GroupIdOf(orders[i])) <= EntryRank(body[j])

\* C5: the stores result is sorted by total_revenue and the delivery result
\* by total_orders, non-increasing; the result has at most `limit` entries
\* (default 10; none for a limit below 1); no group left out ranks strictly
\* above one that is in the result.
C5_TopPerformersSortedAndTruncated ==
    TopAnswered =>
        /\ TopSorted(response.body)
        /\ TopKeepsTheBest(response.body)
        /\ ~RequestedLimit.nan =>
               Len(response.body) <= (IF RequestedLimit.v < 0 THEN 0 ELSE RequestedLimit.v)

----------------------------------------------------------------------------
(* GET /customer-ltv *)

TopCustomers == 10

\* the guard `if (!customerId) return` left out
NoCustomer_never(id) == FALSE

\* `!customerId`: null, undefined and the empty string are falsy
NoCustomer(id) == id.t \in {"null", "undefined"} \/ id = Str(<<>>)

\* one forEach step on the dictionary customerValues
LtvStep(values, order) ==
    LET key == order.created_by
        i == IndexOfKey(values, key, 1)
        g == IF i = 0
             THEN Append(values, [key |-> key,
                      val |-> [customer_id |-> key, total_orders |-> 0,
                               total_spent |-> Num(0)]])
             ELSE values
        j == IF i = 0 THEN Len(g) ELSE i
    IN  IF NoCustomer(key) THEN values
        ELSE [g EXCEPT ![j].val.total_orders = @ + 1,
                       ![j].val.total_spent = JsAdd(@, OrZero(ParseFloat(order.total)))]

RECURSIVE LtvFold(_, _)
LtvFold(os, values) ==
    IF os = <<>> THEN values ELSE LtvFold(Tail(os), LtvStep(values, Head(os)))

RECURSIVE SumSpent(_)
\* customers.reduce((sum, c) => sum + c.total_spent, 0)
SumSpent(customers) ==
    IF customers = <<>> THEN Num(0)
    ELSE JsAdd(Head(customers).total_spent, SumSpent(Tail(customers)))

\* (x / n).toFixed(2) for an amount x in cents: the nearest cent
DivToFixed2(x, n) ==
    IF x.nan THEN NaN ELSE Num((2 * x.v + n) \div (2 * n))

customerLifetimeValue(os) ==
    LET customers == ObjectValues(LtvFold(os, <<>>))
    IN  [average_ltv |-> IF Len(customers) > 0
                         THEN DivToFixed2(SumSpent(customers), Len(customers))
                         ELSE Num(0),
         total_customers |-> Len(customers),
         top_customers |-> Slice0(ArraySort("spent", customers), TopCustomers)]

CustomerIds == {Text("u1"), Text("u2"), Null, Undefined}

\* select('created_by, total')
LtvRows ==
    {[EmptyRow EXCEPT !.total = t, !.created_by = c] :
        t \in TotalValues, c \in CustomerIds}

InitLtv == InitHandler("customer-ltv", {<<>>}, {0})

LtvQuery == IssueQuery("customer-ltv")
LtvRow == FetchRow("customer-ltv", LtvRows, MaxLtvOrders)
LtvQueryFails == QueryFails("customer-ltv")
CustomerLtv == Respond("customer-ltv", Returned(customerLifetimeValue(orders)))

NextLtv == LtvQuery \/ LtvRow \/ LtvQueryFails \/ CustomerLtv

SpecLtv == InitLtv /\ [][NextLtv]_vars

HasCustomer(o) == o.created_by.t \notin {"null", "undefined"}

LtvAnswered == route = "customer-ltv" /\ Computed /\ response.status = 200

\* C6: orders without a customer reference change nothing: the answer is
\* the one computed from the orders that have a customer, total_customers
\* counts the distinct customers, every customer's totals are those of
\* their own orders, and no entry stands for the missing customer.
C6_LtvExcludesOrdersWithoutCustomer ==
    LtvAnswered =>
        LET body == response.body
            kept == SelectSeq(orders, HasCustomer)
            mine(c) == SelectSeq(orders, LAMBDA o : o.created_by = c)
        IN  /\ body = customerLifetimeValue(kept)
            /\ body.total_customers = Cardinality({kept[i].created_by : i \in DOMAIN kept})
            /\ \A i \in DOMAIN body.top_customers :
                   LET c == body.top_customers[i]
                   IN  /\ c.customer_id.t = "text"
                       /\ c.total_orders = Len(mine(c.customer_id))
                       /\ c.total_spent = Num(SumTotals(mine(c.customer_id)))

\* two customers with orders, and orders without a customer among them
C6_Witness ==
    /\ LtvAnswered
    /\ response.body.total_customers = 2
    /\ \E i \in DOMAIN orders : orders[i].created_by = Null
    /\ \E i \in DOMAIN orders : orders[i].created_by = Undefined

----------------------------------------------------------------------------
(* GET /overview *)

RECURSIVE SumRevenue(_)
\* orders.reduce((sum, o) => sum + (parseFloat(o.total) || 0), 0)
SumRevenue(os) ==
    IF os = <<>> THEN Num(0)
    ELSE LET front == SubSeq(os, 1, Len(os) - 1)
         IN  JsAdd(SumRevenue(front), OrZero(ParseFloat(os[Len(os)].total)))

\* a numeric column of a campaign row
Count(n) == [t |-> "number", v |-> n]

\* `c.<count> || 0`
CountOrZero(v) == IF v.t = "number" THEN v.v ELSE 0

RECURSIVE SumCounts(_, _)
\* campaigns.reduce((sum, c) => sum + (c.<field> || 0), 0)
SumCounts(cs, field) ==
    IF cs = <<>> THEN 0
    ELSE CountOrZero(Head(cs)[field]) + SumCounts(Tail(cs), field)

\* the analytics object of the overview (its period echoes the window)
summarize(os, us, cs) ==
    [orders |->
        [total |-> Len(os),
         revenue |-> SumRevenue(os),
         average_value |-> IF Len(os) > 0 THEN DivToFixed2(SumRevenue(os), Len(os))
                           ELSE Num(0),
         by_status |-> [pending |-> CountStatus(os, "pending"),
                        processing |-> CountStatus(os, "processing"),
                        delivered |-> CountStatus(os, "delivered"),
                        cancelled |-> CountStatus(os, "cancelled")]],
     users |-> [new_users |-> Len(us), total_users |-> Len(us)],
     campaigns |->
        [total |-> Len(cs),
         sent |-> Len(SelectSeq(cs, LAMBDA c : c.status = Text("sent"))),
         total_recipients |-> SumCounts(cs, "recipients_count"),
         total_opens |-> SumCounts(cs, "opened_count"),
         total_clicks |-> SumCounts(cs, "clicked_count")]]

OverviewTotals == {Decimal(10000), Decimal(25000), Str(StrAbc), Null, Undefined}

\* select('*') on orders: the columns the overview reads
OverviewRows ==
    {[EmptyRow EXCEPT !.total = t, !.status = Text(st)] :
        t \in OverviewTotals, st \in {"pending", "refunded"}}

\* select('created_at') on users
UserRows == {[created_at |-> Timestamp(475092)]}

\* select('*') on campaigns: a sent campaign with its counters, a draft
\* whose counters are null
CampaignRows ==
    {[status |-> Text("sent"), recipients_count |-> Count(5),
      opened_count |-> Count(2), clicked_count |-> Null],
     [status |-> Text("draft"), recipients_count |-> Null,
      opened_count |-> Null, clicked_count |-> Null]}

InitOverview == InitHandler("overview", {<<>>}, {0})

OverviewQuery == IssueQuery("overview")
OverviewRow == FetchRow("overview", OverviewRows, MaxOrders)
OverviewQueryFails == QueryFails("overview")

\* the orders query resolved with data: the users query is awaited
OverviewUsersQuery ==
    /\ route = "overview"
    /\ pc = "await"
    /\ queries' = Append([queries EXCEPT ![Len(queries)].outcome = "data"],
                         [table |-> "users", outcome |-> "pending"])
    /\ pc' = "await_users"
    /\ UNCHANGED <<chat, route, query, tz, auth, idp, user, orders, users, campaigns, sent>>

OverviewUserRow ==
    /\ route = "overview"
    /\ pc = "await_users"
    /\ Len(users) < MaxUsers
    /\ \E row \in UserRows : users' = Append(users, row)
    /\ UNCHANGED <<chat, route, query, tz, auth, idp, user, pc, queries, orders, campaigns, sent>>

\* the users query resolved with data: the campaigns query is awaited
OverviewCampaignsQuery ==
    /\ route = "overview"
    /\ pc = "await_users"
    /\ queries' = Append([queries EXCEPT ![Len(queries)].outcome = "data"],
                         [table |-> "campaigns", outcome |-> "pending"])
    /\ pc' = "await_campaigns"
    /\ UNCHANGED <<chat, route, query, tz, auth, idp, user, orders, users, campaigns, sent>>

OverviewCampaignRow ==
    /\ route = "overview"
    /\ pc = "await_campaigns"
    /\ Len(campaigns) < MaxCampaigns
    /\ \E row \in CampaignRows : campaigns' = Append(campaigns, row)
    /\ UNCHANGED <<chat, route, query, tz, auth, idp, user, pc, queries, orders, users, sent>>

\* the campaigns query resolved with data: res.json({ analytics, period })
Overview ==
    /\ route = "overview"
    /\ pc = "await_campaigns"
    /\ queries' = [queries EXCEPT ![Len(queries)].outcome = "data"]
    /\ sent' = Append(sent, Ok(summarize(orders, users, campaigns)))
    /\ pc' = "done"
    /\ UNCHANGED <<chat, route, query, tz, auth, idp, user, orders, users, campaigns>>

NextOverview ==
    \/ OverviewQuery \/ OverviewRow \/ OverviewQueryFails
    \/ OverviewUsersQuery \/ OverviewUserRow
    \/ OverviewCampaignsQuery \/ OverviewCampaignRow
    \/ Overview

SpecOverview == InitOverview /\ [][NextOverview]_vars

OverviewComputed == route = "overview" /\ Computed /\ Len(queries) = 3

Parseable(o) == o.total.t = "decimal"

\* C9: the overview computation does not throw; orders.revenue is the sum
\* of the parseable totals alone, an order whose total is null, absent or
\* non-numeric adds 0 to it and to the numerator of average_value while it
\* counts in orders.total, and average_value is 0 when there are no orders.
C9_OverviewZeroSafe ==
    OverviewComputed =>
        LET o == response.body.orders
            sum == SumTotals(SelectSeq(orders, Parseable))
        IN  /\ response.status = 200
            /\ o.total = Len(orders)
            /\ o.revenue = Num(sum)
            /\ ~o.average_value.nan
            /\ Len(orders) = 0 => o.average_value = Num(0)
            /\ Len(orders) > 0 =>
                   /\ 2 * (o.average_value.v * Len(orders) - sum) <= Len(orders)
                   /\ 2 * (sum - o.average_value.v * Len(orders)) <= Len(orders)

\* an overview over a non-numeric total, a null total and a parseable one
C9_Witness ==
    /\ OverviewComputed
    /\ \E i \in DOMAIN orders : orders[i].total = Str(StrAbc)
    /\ \E i \in DOMAIN orders : orders[i].total = Null
    /\ \E i \in DOMAIN orders : Parseable(orders[i])
    /\ response.body.orders.total = 3
    /\ response.body.orders.revenue.v > 0

----------------------------------------------------------------------------
(* authenticateToken *)

\* no header, "Bearer", "Bearer " and a bearer token, good or expired
Headers ==
    {Undefined, Header(<<"Bearer">>), Header(<<"Bearer", "">>),
     Header(<<"Bearer", "good">>), Header(<<"Bearer", "expired">>)}

\* authHeader && authHeader.split(' ')[1]
TokenOf(header) ==
    IF header = Undefined THEN Undefined
    ELSE IF Len(header.parts) >= 2 THEN Text(header.parts[2])
    ELSE Undefined

\* !token
NoToken(token) == token = Undefined \/ token = Text("")

\* the middleware up to its await: the 401 for a missing token, else the
\* call of supabase.auth.getUser(token)
AuthenticateToken ==
    /\ pc = "auth"
    /\ IF NoToken(TokenOf(auth))
       THEN /\ sent' = Append(sent, Failed(401))
            /\ pc' = "done"
            /\ idp' = idp
       ELSE /\ idp' = "pending"
            /\ pc' = "auth_await"
            /\ sent' = sent
    /\ UNCHANGED <<chat, route, query, tz, auth, user, queries, orders, users, campaigns>>

\* getUser resolved with the user: req.user = user; next()
AuthUser ==
    /\ pc = "auth_await"
    /\ TokenOf(auth) = Text("good")
    /\ idp' = "user"
    /\ user' = TheUser
    /\ pc' = "start"
    /\ UNCHANGED <<chat, route, query, tz, auth, queries, orders, users, campaigns, sent>>

\* the rejection answered with the 401 but without the return: next() runs
AuthRejected_noReturn ==
    /\ pc = "auth_await"
    /\ TokenOf(auth) # Text("good")
    /\ idp' \in {"error", "no_user"}
    /\ sent' = Append(sent, Failed(401))
    /\ pc' = "start"
    /\ UNCHANGED <<chat, route, query, tz, auth, user, queries, orders, users, campaigns>>

\* getUser resolved with an error or without a user: the 401
AuthRejected ==
    /\ pc = "auth_await"
    /\ TokenOf(auth) # Text("good")
    /\ idp' \in {"error", "no_user"}
    /\ sent' = Append(sent, Failed(401))
    /\ pc' = "done"
    /\ UNCHANGED <<chat, route, query, tz, auth, user, queries, orders, users, campaigns>>

\* getUser threw: the catch block's 500
AuthThrows ==
    /\ pc = "auth_await"
    /\ idp' = "threw"
    /\ sent' = Append(sent, Failed(500))
    /\ pc' = "done"
    /\ UNCHANGED <<chat, route, query, tz, auth, user, queries, orders, users, campaigns>>

----------------------------------------------------------------------------
(* routes/chatbots.js: each handler by its queries and its responses *)

ChatRoutes ==
    {"sessions-list", "session-get", "session-create", "message-add",
     "session-end", "stats", "session-delete"}

\* req.body of POST /sessions/:id/messages
MessageBodies == [message : {Undefined, Text("hi")}, role : {Undefined, Text("user")}]

ChatQueries(r) == IF r = "message-add" THEN MessageBodies ELSE {<<>>}

\* !message || !role
MessageInvalid == query.message = Undefined \/ query.role = Undefined

\* the 400 of add-message, sent before any query
ChatMessageInvalid ==
    /\ route = "message-add"
    /\ pc = "start"
    /\ MessageInvalid
    /\ sent' = Append(sent, Failed(400))
    /\ pc' = "done"
    /\ UNCHANGED <<chat, route, query, tz, auth, idp, user, queries, orders, users, campaigns>>

\* the handler's query on chatbot_sessions (for add-message: the fetch)
ChatQuery ==
    /\ route \in ChatRoutes
    /\ pc = "start"
    /\ route = "message-add" => ~MessageInvalid
    /\ queries' = Append(queries, [table |-> "chatbot_sessions", outcome |-> "pending"])
    /\ pc' = "await"
    /\ UNCHANGED <<chat, route, query, tz, auth, idp, user, orders, users, campaigns, sent>>

\* status of the success response: 201 for the created session
SuccessStatus(r) == IF r = "session-create" THEN 201 ELSE 200

\* status sent when the awaited query fails: a failed fetch by id is a 404
ErrorStatus(r) == IF r \in {"session-get", "message-add"} THEN 404 ELSE 500

\* the query resolved with data: the response
ChatRespond ==
    /\ route \in ChatRoutes \ {"message-add"}
    /\ pc = "await"
    /\ queries' = [queries EXCEPT ![Len(queries)].outcome = "data"]
    /\ sent' = Append(sent, [status |-> SuccessStatus(route), body |-> Text(route)])
    /\ pc' = "done"
    /\ UNCHANGED <<chat, route, query, tz, auth, idp, user, orders, users, campaigns>>

\* the query resolved with an error
ChatQueryFails ==
    /\ route \in ChatRoutes
    /\ pc = "await"
    /\ queries' = [queries EXCEPT ![Len(queries)].outcome = "error"]
    /\ sent' = Append(sent, Failed(ErrorStatus(route)))
    /\ pc' = "done"
    /\ UNCHANGED <<chat, route, query, tz, auth, idp, user, orders, users, campaigns>>

\* add-message: the fetch resolved, the message is pushed and the update of
\* the whole array is awaited
ChatMessageUpdate ==
    /\ route = "message-add"
    /\ pc = "await"
    /\ queries' = Append([queries EXCEPT ![Len(queries)].outcome = "data"],
                         [table |-> "chatbot_sessions", outcome |-> "pending"])
    /\ pc' = "await_update"
    /\ UNCHANGED <<chat, route, query, tz, auth, idp, user, orders, users, campaigns, sent>>

\* add-message: the update resolved, with data (200) or an error (500)
ChatMessageDone ==
    /\ route = "message-add"
    /\ pc = "await_update"
    /\ \E outcome \in {"data", "error"} :
         /\ queries' = [queries EXCEPT ![Len(queries)].outcome = outcome]
         /\ sent' = Append(sent, IF outcome = "data" THEN Ok(Text(route))
                                 ELSE Failed(500))
    /\ pc' = "done"
    /\ UNCHANGED <<chat, route, query, tz, auth, idp, user, orders, users, campaigns>>

NextChat ==
    \/ ChatMessageInvalid \/ ChatQuery \/ ChatRespond \/ ChatQueryFails
    \/ ChatMessageUpdate \/ ChatMessageDone

----------------------------------------------------------------------------
(* The server: a request passes authenticateToken, then its route handler *)

Init ==
    /\ \/ Request("overview", {<<>>}, {0})
       \/ Request("revenue", RevenueQueries, TimeZones)
       \/ Request("trends", TrendQueries, TimeZones)
       \/ Request("top-performers", TopQueries, {0})
       \/ Request("conversion-funnel", {<<>>}, {0})
       \/ Request("customer-ltv", {<<>>}, {0})
       \/ \E r \in ChatRoutes : Request(r, ChatQueries(r), {0})
    /\ auth \in Headers
    /\ idp = "none"
    /\ user = Undefined
    /\ pc = "auth"

Next ==
    \/ AuthenticateToken \/ AuthUser \/ AuthRejected \/ AuthThrows
    \/ NextOverview \/ NextBucket \/ NextTop \/ NextFunnel \/ NextLtv
    \/ NextChat

Spec == Init /\ [][Next]_vars

\* positions inside a route handler
HandlerPositions == {"start", "await", "await_users", "await_campaigns", "await_update"}

\* the request's token was verified: the provider resolved it to a user
Verified == idp = "user" /\ user = TheUser

\* C10: on every analytics and chatbot route no table is queried, no
\* handler position is reached and no response other than the middleware's
\* 401/500 is sent before the bearer token is verified; a missing or
\* rejected token ends in the single 401 and an identity-provider exception
\* in the single 500, the handler never running.
C10_AuthenticateBeforeQuery ==
    /\ Len(sent) <= 1
    /\ (queries # <<>> \/ pc \in HandlerPositions) => Verified
    /\ ~Verified =>
           /\ queries = <<>> /\ orders = <<>> /\ users = <<>> /\ campaigns = <<>>
           /\ pc \in {"auth", "auth_await", "done"}
           /\ pc = "done" =>
                  sent = <<Failed(IF idp = "threw" THEN 500 ELSE 401)>>
    /\ NoToken(TokenOf(auth)) => idp = "none" /\ ~Verified
    /\ idp \in {"error", "no_user", "threw"} => pc = "done" /\ ~Verified

\* a chatbot request with an expired token, rejected by the provider and
\* answered with the 401
C10_Witness ==
    /\ route \in ChatRoutes
    /\ auth = Header(<<"Bearer", "expired">>)
    /\ idp = "error"
    /\ pc = "done"
    /\ sent = <<Failed(401)>>

----------------------------------------------------------------------------
(* POST /sessions/:id/messages: concurrent requests on one session *)

MaxRequests == 2

Requests == 1 .. MaxRequests

\* the variables of the single-request view, which stay as they are here
single == <<route, query, tz, auth, idp, user, pc, queries, orders, users, campaigns, sent>>

\* a messages column holding an array
Array(items) == [t |-> "array", items |-> items]

\* the row POST /sessions inserts: `messages: []`
SessionRow == [t |-> "row", messages |-> Array(<<>>)]

\* req.body.message of request r: "m1", "m2", ...
MessageContent(r) == Str(<<109>> \o Digits(r))

\* req.body of request r
RequestBodies(r) ==
    [message : {Undefined, MessageContent(r)}, role : {Undefined, Text("user")}]

\* !message || !role
BodyInvalid(body) == body.message = Undefined \/ body.role = Undefined

\* session.messages || []
OrEmptyArray(messages) ==
    IF messages.t \in {"null", "undefined"} THEN <<>> ELSE messages.items

\* the pushed element { role, content: message, timestamp }
NewMessage(body, time) ==
    [role |-> body.role, content |-> body.message, timestamp |-> time]

\* request r ends with a response of this status
Answer(r, status) ==
    requests' = [requests EXCEPT ![r].pc = "done", ![r].status = status]

InitMessages ==
    /\ route = "message-add"
    /\ query = <<>>
    /\ tz = 0
    /\ auth = Header(<<"Bearer", "good">>)
    /\ idp = "user"
    /\ user = TheUser
    /\ pc = "start"
    /\ queries = <<>>
    /\ orders = <<>>
    /\ users = <<>>
    /\ campaigns = <<>>
    /\ sent = <<>>
    /\ chatbot_sessions \in {Null, SessionRow}
    /\ requests \in [Requests -> {[body |-> b, pc |-> "start", messages |-> <<>>, status |-> 0] :
                                     b \in UNION {RequestBodies(r) : r \in Requests}}]
    /\ \A r \in Requests : requests[r].body \in RequestBodies(r)
    /\ now = 0

\* the 400 sent before any query
AddMessageInvalid(r) ==
    /\ requests[r].pc = "start"
    /\ BodyInvalid(requests[r].body)
    /\ Answer(r, 400)
    /\ UNCHANGED <<single, chatbot_sessions, now>>

\* the select of the session's messages is issued and awaited
AddMessageFetch(r) ==
    /\ requests[r].pc = "start"
    /\ ~BodyInvalid(requests[r].body)
    /\ requests' = [requests EXCEPT ![r].pc = "fetch"]
    /\ UNCHANGED <<single, chatbot_sessions, now>>

\* the select resolved with fetchError (no row for .single(), or a store
\* error): the 404
AddMessageNotFound(r) ==
    /\ requests[r].pc = "fetch"
    /\ Answer(r, 404)
    /\ UNCHANGED <<single, chatbot_sessions, now>>

\* the select resolved with the row as stored at that moment: the message is
\* pushed on the request's own copy and the update of the whole array is
\* issued and awaited
AddMessagePush(r) ==
    /\ requests[r].pc = "fetch"
    /\ chatbot_sessions # Null
    /\ requests' = [requests EXCEPT
           ![r].messages = Append(OrEmptyArray(chatbot_sessions.messages),
                                  NewMessage(requests[r].body, now)),
           ![r].pc = "update"]
    /\ now' = now + 1
    /\ UNCHANGED <<single, chatbot_sessions>>

\* the update wrote the request's array over the stored one and resolved
\* with the row: the success response
AddMessageUpdated(r) ==
    /\ requests[r].pc = "update"
    /\ chatbot_sessions # Null
    /\ chatbot_sessions' = [chatbot_sessions EXCEPT !.messages = Array(requests[r].messages)]
    /\ Answer(r, 200)
    /\ UNCHANGED <<single, now>>

\* the update resolved with an error (no row left for .single(), or a store
\* error) and wrote nothing: `if (error) throw error`, the catch block's 500
AddMessageUpdateFails(r) ==
    /\ requests[r].pc = "update"
    /\ Answer(r, 500)
    /\ UNCHANGED <<single, chatbot_sessions, now>>

\* DELETE /sessions/:id of another request removed the row
DeleteSession ==
    /\ chatbot_sessions # Null
    /\ chatbot_sessions' = Null
    /\ UNCHANGED <<single, requests, now>>

NextMessages ==
    \/ \E r \in Requests :
          \/ AddMessageInvalid(r) \/ AddMessageFetch(r) \/ AddMessageNotFound(r)
          \/ AddMessagePush(r) \/ AddMessageUpdated(r) \/ AddMessageUpdateFails(r)
    \/ DeleteSession

SpecMessages == InitMessages /\ [][NextMessages]_vars

\* the request was answered with the success response
Succeeded(r) == requests[r].pc = "done" /\ requests[r].status = 200

\* the messages array stored for the session
StoredMessages == OrEmptyArray(chatbot_sessions.messages)

\* C11: while the session's row exists, every add-message request answered
\* with success has its message in the stored messages array, and the
\* array's length is the number of successful add-message requests,
\* whatever the interleaving of the requests.
C11_NoMessageLost ==
    chatbot_sessions # Null =>
        /\ \A r \in Requests :
              Succeeded(r) =>
                  \E i \in DOMAIN StoredMessages :
                      StoredMessages[i].content = requests[r].body.message
        /\ Len(StoredMessages) = Cardinality({r \in Requests : Succeeded(r)})

----------------------------------------------------------------------------
(* GET /orders/trends on orders of any status *)

\* status values the orders table can carry: two of the fixed four, one
\* outside them, two that name the bucket's own fields, and null
AnyStatuses ==
    {Text("pending"), Text("cancelled"), Text("refunded"), Text("total"),
     Text("period"), Null}

\* select('created_at, status'), every created_at a timestamp
StatusRows ==
    {[EmptyRow EXCEPT !.status = st, !.created_at = c] :
        st \in AnyStatuses, c \in {Timestamp(473351), Timestamp(475092)}}

InitTrends == InitHandler("trends", TrendQueries, TimeZones)

TrendsStatusRow == FetchRow("trends", StatusRows, MaxOrders)

NextTrends == TrendsQuery \/ TrendsStatusRow \/ TrendsQueryFails \/ Trends

SpecTrends == InitTrends /\ [][NextTrends]_vars

\* the time key of each order of the request
KeyOf(i) == TrendKey(orders[i], query.period, tz).value

\* the orders placed in the bucket of time key k
PlacedIn(k) == {i \in DOMAIN orders : KeyOf(i) = k}

RECURSIVE SumOf(_, _)
SumOf(bucket, names) ==
    IF names = {} THEN 0
    ELSE LET n == CHOOSE x \in names : TRUE
         IN  bucket[n] + SumOf(bucket, names \ {n})

\* the sum of the per-status counters of a bucket
CounterSum(bucket) == SumOf(bucket, DOMAIN bucket \ {"period", "total"})

\* C12: in every bucket of a trends answer for a known unit, whatever the
\* status values of the orders, `period` is the time key of the orders
\* placed in the bucket, `total` is the number of those orders, and `total`
\* is the sum of the bucket's per-status counters.
C12_TrendBucketCountsConsistent ==
    (route = "trends" /\ Computed /\ KnownUnit /\ response.status = 200) =>
        /\ Len(response.body) = Cardinality({KeyOf(i) : i \in DOMAIN orders})
        /\ \A j \in DOMAIN response.body :
              LET bucket == response.body[j]
              IN  /\ PlacedIn(bucket.period) # {}
                  /\ bucket.total = Cardinality(PlacedIn(bucket.period))
                  /\ bucket.total = CounterSum(bucket)

====
